---- MODULE Spec2Model ----
(***************************************************************************)
(* Model of the pricing core (pricing_engine.py) and of the classification *)
(* pass (product_identify.py) of wyzinc-suprides-app.                      *)
(*                                                                         *)
(* Units.  A Python float that holds an amount of money is modelled by an  *)
(* integer number of mills (1/1000 EUR) for the inputs (cost, competitor   *)
(* price) and by a Price record for the outputs of round(x, 2): the value  *)
(* m * 10^x cents.  x is 0 except for a quotient by the clamped            *)
(* denominator 1e-9, which does not fit the integers of the model checker. *)
(* A margin is an integer percentage.  The fee fractions are integers in   *)
(* units of 1/SCALE, SCALE = 121 * 10000 being the common denominator of   *)
(* 21/121, margin/100, 0.153 and 0.0816, so the arithmetic is exact.       *)
(***************************************************************************)
EXTENDS Integers, Sequences, FiniteSets

VARIABLES
    \* a call of a pricing function: its name, arguments and return value
    op, cost, margin, competitor_price, result,
    \* classify_products: the files it reads and writes
    processed,      \* rows of produtos_processados.csv
    inventory,      \* rows of my_inventory.csv
    cache_file,     \* cache_ean_to_asin.json
    \* classify_products: its locals
    pc,             \* where the pass stands
    runs,           \* passes started so far
    raised,         \* the exception that ended the pass, "" when none
    cache,          \* the dict loaded from cache_file
    i,              \* position of the loop in processed
    asin, status, score,
    rows_out,
    searched,       \* history: the EANs of the searches that returned
    \* a call of a resolver function: its name, its argument, the answers
    \* the two catalog searches give during the call, and its return value
    call, arg, ean_answer, kw_answer, ret,
    \* classify_suprides_products: its configuration and its input
    SELLER_ID,      \* the environment variable of that name
    sup,            \* the normalised records sup.iter_products yields
    \* classify_suprides_products: its locals and its output
    spc,            \* where the pass stands
    pos,            \* position of the loop in sup
    sp_asin, sp_status, sp_listed, sp_competitor,
    rows,
    written,        \* suprides_classified.csv
    \* history: the input position each row of rows comes from, and the
    \* collaborator calls made so far with their outcomes
    row_src, log

pvars == <<op, cost, margin, competitor_price, result>>

cvars == <<processed, inventory, cache_file, pc, runs, raised, cache, i,
           asin, status, score, rows_out, searched>>

rvars == <<call, arg, ean_answer, kw_answer, ret>>

\* the variables of the other parts, which pricing and product_identify
\* leave alone
svars == <<SELLER_ID, sup, spc, pos, sp_asin, sp_status, sp_listed,
           sp_competitor, rows, written, row_src, log>>

ovars == <<rvars, svars>>

vars == <<pvars, cvars, ovars>>

(* Optional[float]: None is the empty tuple, a present value x is <<x>>. *)
None == <<>>

Some(x) == <<x>>

Val(o) == o[1]

(***************************************************************************)
(* Bounds of the model.                                                    *)
(***************************************************************************)
\* largest supplier cost, in EUR (the last margin bracket starts at 120)
MaxCost == 122

\* costs below zero that _choose_margin is given, in mills
MaxNegCost == 20

\* largest gap, in cents, between the two costs of a monotonicity check
MaxGap == 3

\* rows of produtos_processados.csv
MaxRecords == 2

\* rows of my_inventory.csv
MaxInvRows == 2

\* passes of classify_products over the same files
MaxRuns == 2

(***************************************************************************)
(* pricing_engine.py: configuration.                                       *)
(***************************************************************************)
SCALE == 121 * 10000

IVA_RATE == 21

IVA_FRACTION_IN_GROSS == (SCALE * IVA_RATE) \div (100 + IVA_RATE)

REFERRAL_RATE_UNDER_100 == 15

REFERRAL_RATE_OVER_100 == 8

DST_RATE == 2

EFF_UNDER_100 == (SCALE \div 10000) * REFERRAL_RATE_UNDER_100 * (100 + DST_RATE)

(* mutant: the 2% DST on the referral fee is left out above 100 *)
EFF_OVER_100_NoDst == (SCALE \div 10000) * REFERRAL_RATE_OVER_100 * 100

EFF_OVER_100 == (SCALE \div 10000) * REFERRAL_RATE_OVER_100 * (100 + DST_RATE)

\* 7.14 EUR, in mills
STEP_ADJUST_NUMERATOR == 7140

\* 4.00 EUR, in mills
SHIP_SURCHARGE == 4000

\* the literal 100.0 of `if p_under <= 100.0`, in EUR
STEP_PRICE == 100

\* 1e-9 is 1 / 10^9: a quotient by it is the numerator times 10^9; a
\* numerator in mills gives 10^6 EUR = 10^8 cents per mill
EPS_EXP == 8

(***************************************************************************)
(* _choose_margin: the margin, in percent, for a cost in mills.  The       *)
(* comparisons are those of the code: both ends of a bracket are closed.   *)
(***************************************************************************)
(* mutant: the first bracket loses its lower bound 0.01 *)
_choose_margin_NoLowerBound(cost_base) ==
    LET c == cost_base
    IN  IF c <= 4990 THEN 16
        ELSE IF 5000 <= c /\ c <= 14990 THEN 15
        ELSE IF 15000 <= c /\ c <= 24990 THEN 13
        ELSE IF 25000 <= c /\ c <= 39990 THEN 11
        ELSE IF 40000 <= c /\ c <= 64990 THEN 9
        ELSE IF 65000 <= c /\ c <= 89990 THEN 7
        ELSE IF 90000 <= c /\ c <= 119990 THEN 6
        ELSE 5

_choose_margin(cost_base) ==
    LET c == cost_base
    IN  IF 10 <= c /\ c <= 4990 THEN 16
        ELSE IF 5000 <= c /\ c <= 14990 THEN 15
        ELSE IF 15000 <= c /\ c <= 24990 THEN 13
        ELSE IF 25000 <= c /\ c <= 39990 THEN 11
        ELSE IF 40000 <= c /\ c <= 64990 THEN 9
        ELSE IF 65000 <= c /\ c <= 89990 THEN 7
        ELSE IF 90000 <= c /\ c <= 119990 THEN 6
        ELSE 5

(***************************************************************************)
(* float arithmetic of _solve_pvp, exact.                                  *)
(***************************************************************************)
(* A denominator: n / SCALE, or the literal 1e-9. *)
Den(n) == [eps |-> FALSE, n |-> n]

EpsDen == [eps |-> TRUE, n |-> 1]

Positive(den) == den.eps \/ den.n > 0

(* mutant: the clamp is missing *)
ClampDenom_Missing(n) == Den(n)

(* `if denom <= 0: denom = 1e-9` *)
ClampDenom(n) == IF n <= 0 THEN EpsDen ELSE Den(n)

(* round-half-even of n * a / d for d > 0, computed in two limbs of n so   *)
(* that no intermediate value leaves 32 bits (n * a itself does).          *)
MulDivRound(n, a, d) ==
    LET nh == n \div 100
        nl == n % 100
        q1 == (nh * a) \div d
        r1 == (nh * a) % d
        t  == 100 * r1 + nl * a
        q  == 100 * q1 + (t \div d)
        r  == t % d
    IN  IF 2 * r < d THEN q
        ELSE IF 2 * r > d THEN q + 1
        ELSE IF q % 2 = 0 THEN q ELSE q + 1

(* A rounded amount: m * 10^x cents. *)
Price(m, x) == [m |-> m, x |-> x]

Cents(m) == Price(m, 0)

(* The exception a division by 0.0 raises, as a result. *)
ZeroDivisionError == [raised |-> "ZeroDivisionError"]

(* num / den <= 100.0, num in mills *)
QuotLeStep(num, den) ==
    IF den.eps THEN num <= 0
    ELSE IF den.n > 0 THEN num * (SCALE \div 10000) <= (STEP_PRICE \div 10) * den.n
    ELSE num * (SCALE \div 10000) >= (STEP_PRICE \div 10) * den.n

(* round(num / den, 2), num in mills *)
RoundQuot(num, den) ==
    IF den.eps THEN Price(num, EPS_EXP)
    ELSE IF den.n > 0 THEN Cents(MulDivRound(num, SCALE \div 10, den.n))
    ELSE Cents(MulDivRound(0 - num, SCALE \div 10, 0 - den.n))

(* 1.0 - IVA_FRACTION_IN_GROSS - margin - EFF_UNDER_100, before the clamp *)
raw_under(m) == SCALE - IVA_FRACTION_IN_GROSS - m * (SCALE \div 100) - EFF_UNDER_100

raw_over(m) == SCALE - IVA_FRACTION_IN_GROSS - m * (SCALE \div 100) - EFF_OVER_100

(* mutant: the 2% DST on the referral fee is left out of the low branch *)
denom_under_NoDst(m) ==
    ClampDenom(SCALE - IVA_FRACTION_IN_GROSS - m * (SCALE \div 100)
               - (SCALE \div 10000) * REFERRAL_RATE_UNDER_100 * 100)

denom_under(m) == ClampDenom(raw_under(m))

denom_over(m) == ClampDenom(raw_over(m))

(* mutant: the high branch without the step adjustment of 7.14 *)
_solve_pvp_NoStep(c, m) ==
    LET base == c + SHIP_SURCHARGE
        du   == denom_under(m)
        do   == denom_over(m)
    IN  IF ~du.eps /\ du.n = 0 THEN ZeroDivisionError
        ELSE IF QuotLeStep(base, du) THEN RoundQuot(base, du)
        ELSE IF ~do.eps /\ do.n = 0 THEN ZeroDivisionError
        ELSE RoundQuot(base, do)

(***************************************************************************)
(* _solve_pvp(cost, margin): the floor price.  A division by a zero        *)
(* denominator raises.                                                     *)
(***************************************************************************)
_solve_pvp(c, m) ==
    LET base == c + SHIP_SURCHARGE
        du   == denom_under(m)
        do   == denom_over(m)
    IN  IF ~du.eps /\ du.n = 0 THEN ZeroDivisionError
        ELSE IF QuotLeStep(base, du) THEN RoundQuot(base, du)
        ELSE IF ~do.eps /\ do.n = 0 THEN ZeroDivisionError
        ELSE RoundQuot(base + STEP_ADJUST_NUMERATOR, do)

(***************************************************************************)
(* calc_final_price(cost, competitor_price).  round(x, 2) of a float whose *)
(* decimal value lies exactly between two cents goes by the binary value   *)
(* of the float, which is either side of it: both results are outcomes.    *)
(***************************************************************************)
(* mutant: min instead of max *)
PriceGE_Flipped(p, t) == p.m < 0 - ((0 - t) \div (10 * 10^(p.x)))

(* p >= t for a Price p and an amount t in mills: m >= ceiling(t / 10^(x+1)); *)
(* max(p_floor, target) is p_floor when this holds                          *)
PriceGE(p, t) == p.m >= 0 - ((0 - t) \div (10 * 10^(p.x)))

(* round(t, 2) for t in mills, t >= -10 *)
RoundMills(t) ==
    LET q == t \div 10
        r == t % 10
    IN  IF r < 5 THEN {Cents(q)}
        ELSE IF r > 5 THEN {Cents(q + 1)}
        ELSE {Cents(q), Cents(q + 1)}

Quote(fl, fi, mg) == [floor_price |-> fl, final_price |-> fi, margin_used |-> mg]

(* mutant: the competitor's price itself is the target *)
Target_NoUndercut(comp) == comp

(* `target = competitor_price - 0.01`, in mills *)
Target(comp) == comp - 10

calc_final_price(c, comp) ==
    IF c = None THEN {Quote(None, None, None)}
    ELSE
      LET mg      == _choose_margin(Val(c))
          p_floor == _solve_pvp(Val(c), mg)
          finals  == IF comp # None /\ Val(comp) > 0
                     THEN LET target == Target(Val(comp))
                          IN  IF PriceGE(p_floor, target) THEN {p_floor}
                              ELSE RoundMills(target)
                     ELSE {p_floor}
      IN  IF p_floor = ZeroDivisionError THEN {ZeroDivisionError}
          ELSE {Quote(Some(p_floor), Some(f), Some(mg)) : f \in finals}

(***************************************************************************)
(* The calls of the pricing functions.                                     *)
(***************************************************************************)
\* the margins of the table, and margins that make a denominator <= 0
TableMargins == {16, 15, 13, 11, 9, 7, 6, 5}

DegenerateMargins == {70, 74, 75, 90}

CentCosts == {10 * k : k \in 0..(MaxCost * 100)}

MillCosts == (0 - MaxNegCost)..(MaxCost * 1000)

Competitors ==
    {None} \cup {Some(p) : p \in {0 - 5000, 0, 4, 5, 10, 15000, 26750, 26755,
                                  26760, 26764, 26765, 26766, 26770, 40000, 250000}}

InitMargin ==
    /\ op = "_choose_margin"
    /\ cost \in {Some(c) : c \in MillCosts}
    /\ margin = None
    /\ competitor_price = None
    /\ result = None

InitSolve ==
    /\ op = "_solve_pvp"
    /\ cost \in {Some(c) : c \in CentCosts}
    /\ margin \in {Some(m) : m \in TableMargins \cup DegenerateMargins}
    /\ competitor_price = None
    /\ result = None

InitQuote ==
    /\ op = "calc_final_price"
    /\ cost \in {None} \cup {Some(c) : c \in CentCosts}
    /\ margin = None
    /\ competitor_price \in Competitors
    /\ result = None

(* no resolver call is in progress *)
NoResolve ==
    /\ call = "none"
    /\ arg = None
    /\ ean_answer = None
    /\ kw_answer = None
    /\ ret = None

(* no pass of classify_suprides_products is in progress *)
NoSuprides ==
    /\ SELLER_ID = <<>>
    /\ sup = <<>>
    /\ spc = "none"
    /\ pos = 0
    /\ sp_asin = <<>>
    /\ sp_status = ""
    /\ sp_listed = "no"
    /\ sp_competitor = None
    /\ rows = <<>>
    /\ written = None
    /\ row_src = <<>>
    /\ log = <<>>

(* no classification pass is in progress *)
NoClassification ==
    /\ processed = <<>>
    /\ inventory = <<>>
    /\ cache_file = <<>>
    /\ pc = "idle"
    /\ runs = 0
    /\ raised = ""
    /\ cache = <<>>
    /\ i = 0
    /\ asin = <<>>
    /\ status = ""
    /\ score = 0
    /\ rows_out = <<>>
    /\ searched = <<>>

Init ==
    /\ InitMargin \/ InitSolve \/ InitQuote
    /\ NoClassification
    /\ NoResolve
    /\ NoSuprides

ChooseMargin ==
    /\ op = "_choose_margin"
    /\ result = None
    /\ result' = Some(_choose_margin(Val(cost)))
    /\ UNCHANGED <<op, cost, margin, competitor_price, cvars, ovars>>

SolvePvp ==
    /\ op = "_solve_pvp"
    /\ result = None
    /\ result' = Some(_solve_pvp(Val(cost), Val(margin)))
    /\ UNCHANGED <<op, cost, margin, competitor_price, cvars, ovars>>

CalcFinalPrice ==
    /\ op = "calc_final_price"
    /\ result = None
    /\ \E q \in calc_final_price(cost, competitor_price) : result' = Some(q)
    /\ UNCHANGED <<op, cost, margin, competitor_price, cvars, ovars>>

Next == ChooseMargin \/ SolvePvp \/ CalcFinalPrice

Spec == Init /\ [][Next]_vars

(***************************************************************************)
(* Properties of the pricing functions, checked under Spec.                *)
(***************************************************************************)
MarginDone == op = "_choose_margin" /\ result # None

SolveDone == op = "_solve_pvp" /\ result # None

QuoteDone == op = "calc_final_price" /\ result # None /\ cost # None

Returned(r) == r # ZeroDivisionError

FloorOf(q) == Val(q.floor_price)

FinalOf(q) == Val(q.final_price)

(* C1: for every present cost and every competitor price (absent,          *)
(* non-positive or positive) the quote of calc_final_price has             *)
(* final_price >= floor_price, both being whole numbers of cents.          *)
C1_FinalAtLeastFloor ==
    QuoteDone =>
        /\ Returned(Val(result))
        /\ FloorOf(Val(result)).x = 0
        /\ FinalOf(Val(result)).x = 0
        /\ FinalOf(Val(result)).m >= FloorOf(Val(result)).m

(* a competitor below the floor was given and the floor was published *)
C1_Witness ==
    /\ QuoteDone
    /\ competitor_price # None
    /\ Val(competitor_price) > 0
    /\ Target(Val(competitor_price)) < 10 * FloorOf(Val(result)).m
    /\ FinalOf(Val(result)) = FloorOf(Val(result))

(* C2: undercut law.  When a competitor price is known and                 *)
(* competitor - 0.01 > floor_price, final_price is competitor - 0.01 to    *)
(* the cent (within half a cent of it); in every other case (no            *)
(* competitor, non-positive competitor, competitor - 0.01 <= floor_price)  *)
(* final_price is floor_price.                                             *)
C2_UndercutLaw ==
    QuoteDone =>
        LET q  == Val(result)
            fl == FloorOf(q).m
            fi == FinalOf(q).m
        IN  IF competitor_price # None /\ Val(competitor_price) - 10 > 10 * fl
            THEN 10 * fi - (Val(competitor_price) - 10) \in (0 - 5)..5
            ELSE fi = fl

(* the spec's scenario 4: cost 10.00, competitor 40.00, final 39.99 *)
C2_Witness ==
    /\ QuoteDone
    /\ cost = Some(10000)
    /\ competitor_price = Some(40000)
    /\ FloorOf(Val(result)).m = 2675
    /\ FinalOf(Val(result)).m = 3999

(* The margin table as the specification words it: brackets closed below  *)
(* and open above, in percent, for a cost in mills.                       *)
HalfOpenMargin(c) ==
    IF c < 5000 THEN 16
    ELSE IF c < 15000 THEN 15
    ELSE IF c < 25000 THEN 13
    ELSE IF c < 40000 THEN 11
    ELSE IF c < 65000 THEN 9
    ELSE IF c < 90000 THEN 7
    ELSE IF c < 120000 THEN 6
    ELSE 5

(* C3: marginFor is the half-open step function: every cost c >= 0.01,    *)
(* also one strictly between two cent values such as 4.995 or 14.995,     *)
(* gets the margin of the bracket [lo, hi) that holds it.                 *)
C3_HalfOpenStepFunction ==
    (MarginDone /\ Val(cost) >= 10) => Val(result) = HalfOpenMargin(Val(cost))

C5_MarginMonotone ==
    (MarginDone /\ Val(cost) >= 10) =>
        \A d \in 1..(10 * MaxGap) : Val(result) >= _choose_margin(Val(cost) + d)

(* C6: floor monotonicity: for a fixed margin and costs c1 < c2 a whole   *)
(* number of cents apart, solveFloor(c1, margin) < solveFloor(c2, margin),*)
(* also when c1 is solved by the low branch and c2 by the high branch.    *)
C6_FloorMonotone ==
    SolveDone =>
        \A g \in 1..MaxGap :
            LET f1 == Val(result)
                f2 == _solve_pvp(Val(cost) + 10 * g, Val(margin))
            IN  Returned(f1) /\ Returned(f2) /\ f1.x = f2.x /\ f1.m < f2.m

(* c1 is the last cost of the low branch, c2 the first of the high branch *)
C6_Witness ==
    /\ SolveDone
    /\ margin = Some(9)
    /\ QuotLeStep(Val(cost) + SHIP_SURCHARGE, denom_under(9))
    /\ ~QuotLeStep(Val(cost) + 10 + SHIP_SURCHARGE, denom_under(9))
    /\ Val(result).m <= 10000
    /\ _solve_pvp(Val(cost) + 10, 9).m > 10000

(* The two branches as the specification words them, on its literals:     *)
(* base = cost + 4.00; P_A = base / (1 - 21/121 - margin - 0.153) when    *)
(* P_A <= 100, else (base + 7.14) / (1 - 21/121 - margin - 0.0816).       *)
SpecDenomLow(m) == SCALE - (SCALE * 21) \div 121 - m * (SCALE \div 100) - (153 * SCALE) \div 1000

SpecDenomHigh(m) == SCALE - (SCALE * 21) \div 121 - m * (SCALE \div 100) - (816 * SCALE) \div 10000

SpecFloor(c, m) ==
    LET base == c + 4000
    IN  IF base * 121 <= 10 * SpecDenomLow(m)
        THEN MulDivRound(base, SCALE \div 10, SpecDenomLow(m))
        ELSE MulDivRound(base + 7140, SCALE \div 10, SpecDenomHigh(m))

(* C7: for every cost, with margin = marginFor(cost), floor_price is the  *)
(* low-branch value rounded to cents when that value is <= 100 and the    *)
(* high-branch value rounded to cents otherwise, and the scenarios hold:  *)
(* cost 36.99 gives 72.75, 3.27 gives 14.16, 10.00 gives 26.75.           *)
C7_FloorFormula ==
    QuoteDone =>
        LET q == Val(result)
        IN  /\ Returned(q)
            /\ FloorOf(q) = Cents(SpecFloor(Val(cost), Val(q.margin_used)))
            /\ (cost = Some(36990) => FloorOf(q) = Cents(7275) /\ q.margin_used = Some(11))
            /\ (cost = Some(3270) => FloorOf(q) = Cents(1416) /\ q.margin_used = Some(16))
            /\ (cost = Some(10000) => FloorOf(q) = Cents(2675) /\ q.margin_used = Some(15))

(* a cost solved by the high branch: the low branch gives more than 100 *)
C7_Witness ==
    /\ QuoteDone
    /\ cost = Some(60000)
    /\ ~QuotLeStep(60000 + SHIP_SURCHARGE, denom_under(9))
    /\ FloorOf(Val(result)).m > 10000
    /\ FloorOf(Val(result)) = Cents(SpecFloor(60000, 9))

(* C8: the solver is total: for every non-negative cost and every         *)
(* competitor price calc_final_price returns a quote, and _solve_pvp      *)
(* returns a positive price for every margin; a denominator that is <= 0  *)
(* is replaced by the positive 1e-9, so no division is by zero or by a    *)
(* negative number.                                                       *)
C8_SolverTotal ==
    /\ (op = "calc_final_price" /\ result # None) => Returned(Val(result))
    /\ SolveDone =>
           /\ Returned(Val(result))
           /\ Val(result).m > 0
           /\ Positive(denom_under(Val(margin)))
           /\ Positive(denom_over(Val(margin)))
           /\ (raw_under(Val(margin)) <= 0 => denom_under(Val(margin)) = EpsDen)
           /\ (raw_over(Val(margin)) <= 0 => denom_over(Val(margin)) = EpsDen)

(* both denominators are clamped and the quotient by 1e-9 is returned *)
C8_Witness ==
    /\ SolveDone
    /\ raw_under(Val(margin)) <= 0
    /\ raw_over(Val(margin)) <= 0
    /\ Returned(Val(result))
    /\ Val(result) = Price(Val(cost) + SHIP_SURCHARGE + STEP_ADJUST_NUMERATOR, EPS_EXP)


(***************************************************************************)
(* product_identify.py: classify_products.                                 *)
(*                                                                         *)
(* A string the code looks into character by character (a SKU, an EAN, an  *)
(* ASIN) is a sequence of one-character strings, <<>> being the empty      *)
(* string.  A dict is a function on its keys, <<>> being the empty dict.   *)
(* Scores are in hundredths (0.99 is 99, "1.00" is 100).  Of a row of      *)
(* either file only the columns the classification reads are kept; the     *)
(* inventory rows are taken after the renaming of their headers.           *)
(***************************************************************************)
isdigit(ch) == ch \in {"0", "1", "2", "3", "4", "5", "6", "7", "8", "9"}

_digits(s) == SelectSeq(s, isdigit)

RECURSIVE lstrip(_)
lstrip(s) == IF s # <<>> /\ Head(s) = " " THEN lstrip(Tail(s)) ELSE s

RECURSIVE rstrip(_)
rstrip(s) ==
    IF s # <<>> /\ s[Len(s)] = " "
    THEN rstrip(SubSeq(s, 1, Len(s) - 1))
    ELSE s

strip(s) == rstrip(lstrip(s))

upper_ch(ch) == CASE ch = "x" -> "X" [] ch = "y" -> "Y" [] OTHER -> ch

RECURSIVE upper(_)
upper(s) == IF s = <<>> THEN <<>> ELSE <<upper_ch(Head(s))>> \o upper(Tail(s))

(* dict.get(k): None when the key is absent *)
get(d, k) == IF k \in DOMAIN d THEN Some(d[k]) ELSE None

(* mutant: the assignment forgets the other keys *)
put_Only(d, k, v) == [x \in {k} |-> v]

(* d[k] = v *)
put(d, k, v) == [x \in DOMAIN d \cup {k} |-> IF x = k THEN v ELSE d[x]]

_load_ean_cache == IF cache_file = None THEN <<>> ELSE Val(cache_file)

_save_ean_cache(c) == Some(c)

(* the candidate list of one EAN search: the item exposing the queried     *)
(* EAN, when there is one, wins over the first item of the list            *)
_resolve_asin_by_ean(items, ean0) ==
    LET ean == _digits(ean0)
        exposes(it) == ean \in it.eans
        exact == SelectSeq(items, exposes)
    IN  IF ean = <<>> \/ items = <<>>
        THEN [asin |-> <<>>, status |-> "catalog_ambiguous", score |-> 0]
        ELSE IF exact # <<>>
        THEN [asin |-> exact[1].asin, status |-> "catalog_match", score |-> 99]
        ELSE [asin |-> items[1].asin, status |-> "catalog_match", score |-> 95]

(* my_inventory.csv after the normalisation of its sku and asin columns *)
dfi ==
    [k \in DOMAIN inventory |->
        [sku |-> strip(inventory[k].sku),
         asin |-> upper(strip(inventory[k].asin))]]

(* the row a dict filled in file order keeps for a key: the last one *)
LastRow(S) == dfi[CHOOSE k \in S : \A l \in S : l <= k]

inv_by_sku ==
    [sku_i \in {dfi[k].sku : k \in DOMAIN inventory} \ {<<>>} |->
        LastRow({k \in DOMAIN inventory : dfi[k].sku = sku_i})]

inv_by_asin ==
    [asin_i \in {upper(dfi[k].asin) : k \in DOMAIN inventory} \ {<<>>} |->
        LastRow({k \in DOMAIN inventory : upper(dfi[k].asin) = asin_i})]

ValueError == "ValueError"

(* the truth value of inv_by_sku.get(sku): None is false, and a row of the *)
(* inventory is a pandas Series, whose truth value raises ValueError       *)
bool_inv_row(inv_row) == IF inv_row = None THEN "False" ELSE ValueError

(* mutant: the entry is made after the reconciliation with the inventory *)
cache_entry_Reconciled(a, res) ==
    [asin |-> a,
     status |-> IF a # <<>> /\ a \in DOMAIN inv_by_asin THEN "listed"
                ELSE res.status,
     score |-> res.score]

(* {"asin": asin, "status": status, "score": score}, of the result of the  *)
(* resolution by EAN                                                       *)
cache_entry(a, res) == [asin |-> a, status |-> res.status, score |-> res.score]

(* the record of the loop and the two keys read from it *)
r == processed[i]

sku == strip(r.sku)

ean == _digits(r.ean)

Row(a, st, sc, li, prov) ==
    [sku |-> sku, ean |-> strip(r.ean), asin |-> a, status |-> st,
     score |-> sc, listed |-> li, provenance |-> prov]

(* rows_out.append(row), then the next record, or after the last one the   *)
(* cache is persisted and the pass returns                                 *)
Emit(row) ==
    /\ rows_out' = Append(rows_out, row)
    /\ IF i < Len(processed)
       THEN /\ i' = i + 1
            /\ pc' = "step1"
            /\ UNCHANGED cache_file
       ELSE /\ i' = i
            /\ pc' = "done"
            /\ cache_file' = _save_ean_cache(cache)

(* an exception leaves the loop and the function: nothing is persisted *)
Raise(e) ==
    /\ pc' = "raised"
    /\ raised' = e
    /\ UNCHANGED <<cache_file, cache, i, rows_out>>


(* the files and the answers of the catalog the passes are run on *)
SeqsUpTo(S, n) == UNION {[1..k -> S] : k \in 0..n}

ProcessedRows ==
    {[sku |-> <<"A">>, ean |-> <<"1">>],
     [sku |-> <<"A", " ">>, ean |-> <<>>],
     [sku |-> <<"B">>, ean |-> <<"1">>],
     [sku |-> <<"B">>, ean |-> <<"1", "-">>],
     [sku |-> <<"B">>, ean |-> <<"2">>],
     [sku |-> <<"B">>, ean |-> <<"-">>]}

InventoryRows ==
    {[sku |-> <<"A">>, asin |-> <<"X", "1">>],
     [sku |-> <<"C">>, asin |-> <<"x", "1">>],
     [sku |-> <<>>, asin |-> <<"Y", "2">>],
     [sku |-> <<"C", " ">>, asin |-> <<>>]}

CacheFiles ==
    {None,
     Some(put(<<>>, <<"1">>,
              [asin |-> <<"X", "1">>, status |-> "catalog_match",
               score |-> 99]))}

SearchResults ==
    {<<>>,
     <<[asin |-> <<"x", "1">>, eans |-> {}]>>,
     <<[asin |-> <<"Y", "2">>, eans |-> {}],
       [asin |-> <<"X", "1">>, eans |-> {<<"1">>}]>>,
     <<[asin |-> <<>>, eans |-> {<<"2">>}]>>}

NoPricing ==
    /\ op = "none"
    /\ cost = None
    /\ margin = None
    /\ competitor_price = None
    /\ result = None

InitClassify ==
    /\ NoPricing
    /\ NoResolve
    /\ NoSuprides
    /\ processed \in SeqsUpTo(ProcessedRows, MaxRecords)
    /\ inventory \in SeqsUpTo(InventoryRows, MaxInvRows)
    /\ cache_file \in CacheFiles
    /\ pc = "idle"
    /\ runs = 0
    /\ raised = ""
    /\ cache = <<>>
    /\ i = 0
    /\ asin = <<>>
    /\ status = ""
    /\ score = 0
    /\ rows_out = <<>>
    /\ searched = <<>>

CanStart == pc \in {"idle", "done", "raised"} /\ runs < MaxRuns

(* classify_products is called on an empty produtos_processados.csv *)
StartEmpty ==
    /\ CanStart
    /\ processed = <<>>
    /\ runs' = runs + 1
    /\ pc' = "raised"
    /\ raised' = "RuntimeError"
    /\ UNCHANGED <<pvars, ovars, searched, processed,
                   inventory, cache_file, cache, i, asin,
                   status, score, rows_out>>

(* classify_products is called: the files are read, the cache is loaded    *)
(* and the loop stands at the first record                                 *)
Start ==
    /\ CanStart
    /\ processed # <<>>
    /\ runs' = runs + 1
    /\ pc' = "step1"
    /\ raised' = ""
    /\ cache' = _load_ean_cache
    /\ i' = 1
    /\ asin' = <<>>
    /\ status' = ""
    /\ score' = 0
    /\ rows_out' = <<>>
    /\ UNCHANGED <<pvars, ovars, searched, processed,
                   inventory, cache_file>>

(* 1) the SKU is a key of inv_by_sku: `if inv_row:` is evaluated *)
Step1Sku ==
    /\ pc = "step1"
    /\ get(inv_by_sku, sku) # None
    /\ LET inv_row == get(inv_by_sku, sku)
           truth == bool_inv_row(inv_row)
       IN  CASE truth = ValueError ->
                  Raise(ValueError)
             [] truth = "True" ->
                  /\ Emit(Row(upper(Val(inv_row).asin), "listed", 100, "yes",
                              "inventory-sku"))
                  /\ UNCHANGED <<raised, cache>>
             [] truth = "False" ->
                  /\ pc' = "step2"
                  /\ UNCHANGED <<raised, cache_file, cache, i, rows_out>>
    /\ UNCHANGED <<pvars, ovars, searched, processed,
                   inventory, runs, asin, status, score>>

(* 1) the SKU is not a key of inv_by_sku: inv_row is None *)
Step1NoSku ==
    /\ pc = "step1"
    /\ get(inv_by_sku, sku) = None
    /\ bool_inv_row(get(inv_by_sku, sku)) = "False"
    /\ pc' = "step2"
    /\ UNCHANGED <<pvars, ovars, searched, processed,
                   inventory, cache_file, runs, raised,
                   cache, i, asin, status, score, rows_out>>

(* 2) the record has no digit of an EAN: the defaults stay *)
Step2NoEan ==
    /\ pc = "step2"
    /\ ean = <<>>
    /\ asin' = <<>>
    /\ status' = "catalog_ambiguous"
    /\ score' = 0
    /\ pc' = "step3"
    /\ UNCHANGED <<pvars, ovars, searched, processed,
                   inventory, cache_file, runs, raised,
                   cache, i, rows_out>>

(* 2) the EAN is in the cache: no search *)
Step2Cached ==
    /\ pc = "step2"
    /\ ean # <<>>
    /\ get(cache, ean) # None
    /\ LET cached == Val(get(cache, ean))
       IN  /\ asin' = upper(cached.asin)
           /\ status' = IF cached.status = ""
                        THEN "catalog_ambiguous"
                        ELSE cached.status
           /\ score' = cached.score
    /\ pc' = "step3"
    /\ UNCHANGED <<pvars, ovars, searched, processed,
                   inventory, cache_file, runs, raised,
                   cache, i, rows_out>>

(* 2) the EAN is not in the cache: the catalog is searched and its answer  *)
(* is cached                                                               *)
Step2Resolve ==
    /\ pc = "step2"
    /\ ean # <<>>
    /\ get(cache, ean) = None
    /\ \E items \in SearchResults :
         LET res == _resolve_asin_by_ean(items, ean)
             a == upper(res.asin)
         IN  /\ asin' = a
             /\ status' = res.status
             /\ score' = res.score
             /\ cache' = put(cache, ean, cache_entry(a, res))
    /\ searched' = Append(searched, ean)
    /\ pc' = "step3"
    /\ UNCHANGED <<pvars, ovars, processed, inventory, cache_file, runs, raised, i,
                   rows_out>>

(* 2) the EAN is not in the cache and the search raises: nothing catches   *)
(* the exception inside classify_products                                  *)
Step2ResolveRaises ==
    /\ pc = "step2"
    /\ ean # <<>>
    /\ get(cache, ean) = None
    /\ asin' = <<>>
    /\ status' = "catalog_ambiguous"
    /\ score' = 0
    /\ Raise("HTTPError")
    /\ UNCHANGED <<pvars, ovars, searched, processed,
                   inventory, runs>>

(* 3) the resolved ASIN is a key of inv_by_asin *)
Step3Listed ==
    /\ pc = "step3"
    /\ asin # <<>>
    /\ asin \in DOMAIN inv_by_asin
    /\ Emit(Row(asin, "listed", 100, "yes", "inventory-asin"))
    /\ UNCHANGED <<pvars, ovars, searched, processed,
                   inventory, runs, raised, cache, asin,
                   status, score>>

(* 4) otherwise the result of the resolution by EAN is kept *)
Step3Keep ==
    /\ pc = "step3"
    /\ ~(asin # <<>> /\ asin \in DOMAIN inv_by_asin)
    /\ Emit(Row(asin, status, score, "no",
                IF status = "catalog_match" THEN "ean" ELSE ""))
    /\ UNCHANGED <<pvars, ovars, searched, processed,
                   inventory, runs, raised, cache, asin,
                   status, score>>

NextClassify ==
    \/ StartEmpty
    \/ Start
    \/ Step1Sku
    \/ Step1NoSku
    \/ Step2NoEan
    \/ Step2Cached
    \/ Step2Resolve
    \/ Step2ResolveRaises
    \/ Step3Listed
    \/ Step3Keep

SpecClassify == InitClassify /\ [][NextClassify]_vars


(***************************************************************************)
(* Properties of the classification pass, checked under SpecClassify.      *)
(***************************************************************************)
(* the pass is through with record j: its row is written, or the pass      *)
(* ended on it with an exception                                           *)
Through(j) == j <= Len(rows_out) \/ (pc = "raised" /\ j = i)

PassEnded == runs > 0 /\ pc \in {"done", "raised"}

SkuOf(j) == strip(processed[j].sku)

(* C9: Listed dominance.  For every supplier record the pass is through    *)
(* with: if its SKU is a key of the snapshot by SKU, its output row is     *)
(* listed with the snapshot's ASIN; otherwise, if the ASIN resolved for it *)
(* is a key of the snapshot by ASIN, its output row is listed with that    *)
(* ASIN.                                                                   *)
C9_ListedDominance ==
    \A j \in DOMAIN processed :
        Through(j) =>
            IF SkuOf(j) \in DOMAIN inv_by_sku
            THEN /\ j <= Len(rows_out)
                 /\ rows_out[j].status = "listed"
                 /\ rows_out[j].asin = inv_by_sku[SkuOf(j)].asin
            ELSE (/\ j <= Len(rows_out)
                  /\ rows_out[j].asin # <<>>
                  /\ rows_out[j].asin \in DOMAIN inv_by_asin)
                 => rows_out[j].status = "listed"

(* C10: when a pass has ended every record has exactly one row, hence one  *)
(* classification, and a row that is listed is not changed to another      *)
(* status by any later step of the pass.                                   *)
C10_OneClassificationNeverReversed ==
    /\ [](PassEnded => Len(rows_out) = Len(processed))
    /\ [][\A j \in DOMAIN rows_out :
            (rows_out[j].status = "listed" /\ j \in DOMAIN rows_out')
                => rows_out'[j].status = "listed"]_vars


(***************************************************************************)
(* asin_resolver.py: resolve_asin and suggest_candidates.                  *)
(*                                                                         *)
(* An item of the EAN search is [asin, brand, eans, matched_by_query].  A  *)
(* result of the keyword search is [asin, brand, sim, tok], sim and tok    *)
(* being the two similarities of its title to the title of the row, in     *)
(* hundredths; a score is in thousandths.  None and the empty string are   *)
(* both <<>>.                                                              *)
(***************************************************************************)
lower_ch(ch) ==
    CASE ch = "A" -> "a" [] ch = "B" -> "b" [] ch = "H" -> "h"
      [] ch = "P" -> "p" [] ch = "S" -> "s" [] ch = "Z" -> "z" [] OTHER -> ch

RECURSIVE lower(_)
lower(s) == IF s = <<>> THEN <<>> ELSE <<lower_ch(Head(s))>> \o lower(Tail(s))

(* re.sub(r"\s+", " ", s) *)
RECURSIVE collapse(_)
collapse(s) ==
    IF Len(s) < 2 THEN s
    ELSE IF s[1] = " " /\ s[2] = " " THEN collapse(Tail(s))
    ELSE <<s[1]>> \o collapse(Tail(s))

_norm(s) == collapse(lower(strip(s)))

(* a in b, for two strings *)
In(a, b) ==
    \E k \in 0..(Len(b) - Len(a)) : SubSeq(b, k + 1, k + Len(a)) = a

(* brand and ib and (brand == ib or brand in ib or ib in brand) *)
brand_matches(brand, ib) ==
    /\ brand # <<>>
    /\ ib # <<>>
    /\ (brand = ib \/ In(brand, ib) \/ In(ib, brand))

max_candidates == 5

BRAND_BONUS == 200

score_of(brand, it) ==
    6 * it.sim + 3 * it.tok
        + (IF brand_matches(brand, _norm(it.brand)) THEN BRAND_BONUS ELSE 0)

(* mutant: a sort that puts an entry before those of its score *)
RECURSIVE insert_desc_Unstable(_, _)
insert_desc_Unstable(sorted, c) ==
    IF sorted = <<>> THEN <<c>>
    ELSE IF Head(sorted).score > c.score
    THEN <<Head(sorted)>> \o insert_desc_Unstable(Tail(sorted), c)
    ELSE <<c>> \o sorted

(* list.sort(key = score, reverse = True): stable, equal scores keep their *)
(* order                                                                   *)
RECURSIVE insert_desc(_, _)
insert_desc(sorted, c) ==
    IF sorted = <<>> THEN <<c>>
    ELSE IF Head(sorted).score >= c.score
    THEN <<Head(sorted)>> \o insert_desc(Tail(sorted), c)
    ELSE <<c>> \o sorted

RECURSIVE sort_desc(_)
sort_desc(scored) ==
    IF scored = <<>> THEN <<>>
    ELSE insert_desc(sort_desc(SubSeq(scored, 1, Len(scored) - 1)),
                     scored[Len(scored)])

(* the loop that keeps the first entry of each ASIN up to max_candidates *)
RECURSIVE unique_top(_, _)
unique_top(scored, out) ==
    IF scored = <<>> THEN out
    ELSE LET c == Head(scored)
             seen == {out[k].asin : k \in DOMAIN out}
             out1 == IF c.asin # <<>> /\ c.asin \notin seen
                     THEN Append(out, c)
                     ELSE out
         IN  IF Len(out1) >= max_candidates
             THEN out1
             ELSE unique_top(Tail(scored), out1)

suggest_candidates(rw, results) ==
    LET brand == _norm(rw.brand)
        scored == [k \in DOMAIN results |->
                     [asin |-> results[k].asin, brand |-> results[k].brand,
                      score |-> score_of(brand, results[k])]]
    IN  unique_top(sort_desc(scored), <<>>)

(* the first item of the list whose brand matches, else the first item *)
best_of(brand, its) ==
    LET hits == {k \in DOMAIN its : brand_matches(brand, _norm(its[k].brand))}
    IN  IF hits = {} THEN its[1]
        ELSE its[CHOOSE k \in hits : \A l \in hits : k <= l]

resolve_asin(rw, items, results) ==
    LET brand == _norm(rw.brand)
        ean_r == _digits(rw.ean)
        query_confirmed == \E k \in DOMAIN items : items[k].matched_by_query
        exposes(it) == ean_r \in it.eans
        exact == SelectSeq(items, exposes)
        ambiguous == [status |-> "catalog_ambiguous", asin |-> <<>>,
                      score |-> 0,
                      candidates |-> suggest_candidates(rw, results)]
    IN  IF ean_r # <<>> /\ items # <<>> /\ exact # <<>>
        THEN [status |-> "catalog_match", asin |-> best_of(brand, exact).asin,
              score |-> 990, candidates |-> <<>>]
        ELSE IF ean_r # <<>> /\ items # <<>> /\ query_confirmed
        THEN [status |-> "catalog_match", asin |-> best_of(brand, items).asin,
              score |-> 950, candidates |-> <<>>]
        ELSE ambiguous


\* items of one answer of the EAN search
MaxItems == 2

ResolverRows ==
    {[ean |-> e, brand |-> b] :
        e \in {<<>>, <<"1">>, <<"-">>}, b \in {<<>>, <<" ", "A", "b">>}}

EanItems ==
    {[asin |-> <<"P", "1">>, brand |-> <<"z", "z">>, eans |-> {<<"1">>},
      matched_by_query |-> TRUE],
     [asin |-> <<"P", "2">>, brand |-> <<"a", "b", " ", "c">>,
      eans |-> {<<"1">>}, matched_by_query |-> TRUE],
     [asin |-> <<"P", "3">>, brand |-> <<"Z">>, eans |-> {},
      matched_by_query |-> FALSE],
     [asin |-> <<"P", "4">>, brand |-> <<"A", "B">>, eans |-> {},
      matched_by_query |-> TRUE],
     [asin |-> <<"P", "5">>, brand |-> <<>>, eans |-> {<<"2">>},
      matched_by_query |-> FALSE]}

EanAnswers == SeqsUpTo(EanItems, MaxItems)

Kw(a, b, sim, tok) == [asin |-> a, brand |-> b, sim |-> sim, tok |-> tok]

KwAnswers ==
    {<<>>,
     <<Kw(<<"K", "1">>, <<"A", "B">>, 100, 100)>>,
     <<Kw(<<"K", "1">>, <<"z">>, 50, 50), Kw(<<"K", "2">>, <<"A", "B">>, 40, 50)>>,
     <<Kw(<<"K", "1">>, <<>>, 40, 20), Kw(<<>>, <<>>, 90, 90),
       Kw(<<"K", "2">>, <<>>, 40, 20), Kw(<<"K", "1">>, <<>>, 80, 80)>>,
     <<Kw(<<"K", "1">>, <<>>, 10, 0), Kw(<<"K", "2">>, <<>>, 20, 0),
       Kw(<<"K", "3">>, <<>>, 30, 0), Kw(<<"K", "4">>, <<>>, 40, 0),
       Kw(<<"K", "5">>, <<>>, 50, 0), Kw(<<"K", "6">>, <<>>, 60, 0),
       Kw(<<"K", "7">>, <<>>, 60, 0)>>}

InitResolve ==
    /\ NoPricing
    /\ NoClassification
    /\ NoSuprides
    /\ call \in {"resolve_asin", "_resolve_asin_by_ean"}
    /\ arg \in {Some(rw) : rw \in ResolverRows}
    /\ ean_answer \in {Some(a) : a \in EanAnswers}
    /\ kw_answer \in {Some(a) : a \in KwAnswers}
    /\ ret = None

(* asin_resolver.resolve_asin(row, client) *)
ResolveAsin ==
    /\ call = "resolve_asin"
    /\ ret = None
    /\ ret' = Some(resolve_asin(Val(arg), Val(ean_answer), Val(kw_answer)))
    /\ UNCHANGED <<pvars, cvars, svars, call, arg, ean_answer, kw_answer>>

(* product_identify._resolve_asin_by_ean(client, ean) *)
ResolveAsinByEan ==
    /\ call = "_resolve_asin_by_ean"
    /\ ret = None
    /\ ret' = Some(_resolve_asin_by_ean(Val(ean_answer), Val(arg).ean))
    /\ UNCHANGED <<pvars, cvars, svars, call, arg, ean_answer, kw_answer>>

NextResolve == ResolveAsin \/ ResolveAsinByEan

SpecResolve == InitResolve /\ [][NextResolve]_vars


(***************************************************************************)
(* Properties of the resolver functions, checked under SpecResolve.        *)
(***************************************************************************)
ResolveDone == call \in {"resolve_asin", "_resolve_asin_by_ean"} /\ ret # None

QueriedEan == _digits(Val(arg).ean)

Candidates == Val(ean_answer)

Exposing == {k \in DOMAIN Candidates : QueriedEan \in Candidates[k].eans}

Confirmed == {k \in DOMAIN Candidates : Candidates[k].matched_by_query}

(* the supplier brand equals, contains or is contained in the brand of     *)
(* candidate k, both lower-cased and trimmed and neither empty             *)
BrandTie(k) ==
    LET b == _norm(Val(arg).brand)
        ib == _norm(Candidates[k].brand)
    IN  b # <<>> /\ ib # <<>> /\ (In(b, ib) \/ In(ib, b))

First(S) == CHOOSE k \in S : \A l \in S : k <= l

(* the first candidate of S in search-result order whose brand ties with   *)
(* the supplier brand, or the first candidate of S when none does          *)
TieBroken(S) ==
    IF \E k \in S : BrandTie(k)
    THEN First({k \in S : BrandTie(k)})
    ELSE First(S)

(* the confidence of the returned classification, in thousandths *)
Confidence ==
    IF call = "resolve_asin" THEN Val(ret).score ELSE 10 * Val(ret).score

(* C11: when the EAN search returns candidates of which at least one       *)
(* exposes the queried EAN, the resolver returns catalog_match at 0.99     *)
(* with the ASIN of the first exposing candidate whose brand ties with the *)
(* supplier brand, or of the first exposing candidate when no brand ties.  *)
C11_ExactEanMatch ==
    (ResolveDone /\ QueriedEan # <<>> /\ Exposing # {}) =>
        /\ Val(ret).status = "catalog_match"
        /\ Confidence = 990
        /\ Val(ret).asin = Candidates[TieBroken(Exposing)].asin

(* C12: when no candidate exposes the queried EAN and at least one was     *)
(* confirmed by the exact query, the resolver returns catalog_match at     *)
(* 0.95 with the ASIN of the first confirmed candidate, brand-tie-broken;  *)
(* no ASIN of an unconfirmed candidate is returned at 0.95.                *)
C12_QueryConfirmedMatch ==
    /\ (ResolveDone /\ QueriedEan # <<>> /\ Exposing = {} /\ Confirmed # {}) =>
           /\ Val(ret).status = "catalog_match"
           /\ Confidence = 950
           /\ Val(ret).asin = Candidates[TieBroken(Confirmed)].asin
    /\ (ResolveDone /\ Val(ret).status = "catalog_match" /\ Confidence = 950) =>
           \E k \in Confirmed : Val(ret).asin = Candidates[k].asin


(***************************************************************************)
(* suprides_identify.py: classify_suprides_products.                       *)
(*                                                                         *)
(* An item of the catalog answer is [asin, summaries], a summary being     *)
(* [marketplaceId, brand, itemName].  An offer is [SellerId, ListingPrice, *)
(* Shipping]; an amount is absent, a number of mills, or a value float()   *)
(* rejects.  Prices of a row are in cents, None being the empty column.    *)
(***************************************************************************)
MARKETPLACE_ID == "A1RKKUPIHCS9HS"

(* two entries of BRAND_BLOCKLIST_DEFAULT, "HP" and "Servi\u00e7os".  A      *)
(* character outside ASCII is written as its code point: "U+00E7" is the   *)
(* c with cedilla, "U+0327" the combining cedilla.                         *)
_BRAND_BLOCKLIST ==
    {<<"H", "P">>,
     <<"S", "e", "r", "v", "i", "U+00E7", "o", "s">>}

(* unicodedata.normalize("NFKC", s): a letter and the combining mark after *)
(* it become the one precomposed character; everything else of the model's *)
(* alphabet stays as it is                                                 *)
RECURSIVE nfkc(_)
nfkc(s) ==
    IF Len(s) < 2 THEN s
    ELSE IF s[1] = "c" /\ s[2] = "U+0327"
    THEN <<"U+00E7">> \o nfkc(SubSeq(s, 3, Len(s)))
    ELSE <<s[1]>> \o nfkc(Tail(s))

(* str.casefold(), which on the model's alphabet is str.lower() *)
casefold(s) == lower(s)

_canon_brand(s) == strip(casefold(nfkc(s)))

_BRAND_BLOCK_KEYS == {_canon_brand(x) : x \in _BRAND_BLOCKLIST}

(* the code point of a character *)
ord_ch(ch) ==
    CASE ch = " " -> 32 [] ch = "-" -> 45 [] ch = "0" -> 48 [] ch = "1" -> 49
      [] ch = "2" -> 50 [] ch = "3" -> 51 [] ch = "A" -> 65 [] ch = "B" -> 66
      [] ch = "H" -> 72 [] ch = "P" -> 80 [] ch = "S" -> 83 [] ch = "X" -> 88
      [] ch = "Y" -> 89 [] ch = "Z" -> 90 [] ch = "a" -> 97 [] ch = "b" -> 98
      [] ch = "c" -> 99 [] ch = "e" -> 101 [] ch = "h" -> 104
      [] ch = "i" -> 105 [] ch = "o" -> 111 [] ch = "p" -> 112
      [] ch = "r" -> 114 [] ch = "s" -> 115 [] ch = "t" -> 116
      [] ch = "v" -> 118 [] ch = "z" -> 122 [] ch = "U+00E7" -> 231
      [] ch = "U+0327" -> 807

(* a < b, for two strings *)
RECURSIVE str_less(_, _)
str_less(a, b) ==
    IF b = <<>> THEN FALSE
    ELSE IF a = <<>> THEN TRUE
    ELSE IF ord_ch(Head(a)) # ord_ch(Head(b))
    THEN ord_ch(Head(a)) < ord_ch(Head(b))
    ELSE str_less(Tail(a), Tail(b))

(* a raw stock value of the supplier: a number, in tenths, or a text *)
Qty(t) == [label |-> "", tenths |-> t]

Label(l) == [label |-> l, tenths |-> 0]

(* int(x): the number without its fraction *)
int(t) == IF t >= 0 THEN t \div 10 ELSE -((-t) \div 10)

(* supplier_suprides._to_int; a text is one of the labels in ASCII or has  *)
(* no number in it                                                         *)
_to_int(v) ==
    IF v.label = ""
    THEN (IF int(v.tenths) > 0 THEN int(v.tenths) ELSE 0)
    ELSE IF v.label \in {"0", "oos", "outofstock", "semstock", "sem_estoque",
                         "semestoque", "no", "false"}
    THEN 0
    ELSE IF v.label \in {"<2", "le2"} THEN 1
    ELSE IF v.label \in {"<10", "le10"} THEN 5
    ELSE IF v.label \in {">10", "ge10", "10+", ">9"} THEN 10
    ELSE 0

(* supplier_suprides.normalize, of a record that has the first of the      *)
(* alternative keys of each column; `x or ...` makes a cost of 0 None      *)
normalize(raw) ==
    [sku |-> strip(raw.sku), ean |-> strip(raw.ean),
     brand |-> strip(raw.brand), name |-> strip(raw.name),
     price_cost |-> IF raw.price_cost = Some(0) THEN None ELSE raw.price_cost,
     qty_available |-> _to_int(raw.qty_available)]

(* of the integer normalize returns *)
_parse_qty_to_int(v) == IF v > 0 THEN v ELSE 0

_remap_stock_discrete(qty) ==
    IF qty <= 0 THEN 0
    ELSE IF qty < 2 THEN 1
    ELSE IF qty < 10 THEN 5
    ELSE 10

(* the summary of an item for the marketplace, None when it has none *)
RECURSIVE take_of(_)
take_of(summaries) ==
    IF summaries = <<>> THEN None
    ELSE IF Head(summaries).marketplaceId = MARKETPLACE_ID
    THEN Some(Head(summaries))
    ELSE take_of(Tail(summaries))

(* the (asin, summary) pairs of the items that have both *)
RECURSIVE cand_of(_)
cand_of(items) ==
    IF items = <<>> THEN <<>>
    ELSE LET it == Head(items)
             take == take_of(it.summaries)
         IN  (IF it.asin # <<>> /\ take # None
              THEN <<[asin |-> it.asin, s |-> Val(take)]>>
              ELSE <<>>) \o cand_of(Tail(items))

rank_score(sb, c) ==
    LET b == strip(lower(c.s.brand))
        title == lower(c.s.itemName)
    IN  (IF sb # <<>> /\ b # <<>> /\ (In(sb, b) \/ In(b, sb)) THEN 10 ELSE 0)
        + (IF sb # <<>> /\ In(sb, title) THEN 3 ELSE 0)

(* (score, asin) pairs compare by score, then by asin *)
rank_less(x, y) ==
    x.score < y.score \/ (x.score = y.score /\ str_less(x.asin, y.asin))

_choose_best_catalog_item(items, supplier_brand) ==
    LET cand == cand_of(items)
        sb == strip(lower(supplier_brand))
        ranked == {[score |-> rank_score(sb, cand[k]), asin |-> cand[k].asin] :
                     k \in DOMAIN cand}
        top == CHOOSE x \in ranked : \A y \in ranked : ~rank_less(x, y)
    IN  IF items = <<>> \/ cand = <<>>
        THEN [asin |-> <<>>, status |-> "not_found"]
        ELSE IF Len(cand) = 1
        THEN [asin |-> cand[1].asin, status |-> "catalog_match"]
        ELSE IF top.score >= 10
        THEN [asin |-> top.asin, status |-> "catalog_match"]
        ELSE [asin |-> <<>>, status |-> "catalog_ambiguous"]

Absent == [kind |-> "absent", v |-> 0]

Num(v) == [kind |-> "num", v |-> v]

Rejected == [kind |-> "rejected", v |-> 0]

(* float(d.get("Amount", 0)) raises *)
float_raises(a) == a.kind = "rejected"

(* float(d.get("Amount", 0)), in mills *)
float_amount(a) == a.v

(* mutant: the offer of the seller itself competes like any other *)
RECURSIVE scan_offers_CountsOwn(_, _, _, _)
scan_offers_CountsOwn(offers, seller, my_seen, best_other) ==
    IF offers = <<>> THEN [my_seen |-> my_seen, best_other |-> best_other]
    ELSE LET off == Head(offers)
             sid == strip(off.SellerId)
         IN  IF float_raises(off.ListingPrice) \/ float_raises(off.Shipping)
             THEN scan_offers_CountsOwn(Tail(offers), seller, my_seen,
                                        best_other)
             ELSE LET landed == float_amount(off.ListingPrice)
                                    + float_amount(off.Shipping)
                  IN  scan_offers_CountsOwn(
                          Tail(offers), seller,
                          my_seen \/ (seller # <<>> /\ sid = seller),
                          IF best_other = None \/ landed < Val(best_other)
                          THEN Some(landed)
                          ELSE best_other)

(* the loop over the offers: my_seen and best_other, None being math.inf *)
RECURSIVE scan_offers(_, _, _, _)
scan_offers(offers, seller, my_seen, best_other) ==
    IF offers = <<>> THEN [my_seen |-> my_seen, best_other |-> best_other]
    ELSE LET off == Head(offers)
             sid == strip(off.SellerId)
         IN  IF float_raises(off.ListingPrice) \/ float_raises(off.Shipping)
             THEN scan_offers(Tail(offers), seller, my_seen, best_other)
             ELSE LET landed == float_amount(off.ListingPrice)
                                    + float_amount(off.Shipping)
                  IN  IF seller # <<>> /\ sid = seller
                      THEN scan_offers(Tail(offers), seller, TRUE, best_other)
                      ELSE IF best_other = None \/ landed < Val(best_other)
                      THEN scan_offers(Tail(offers), seller, my_seen,
                                       Some(landed))
                      ELSE scan_offers(Tail(offers), seller, my_seen,
                                       best_other)


(* mutant: the records without EAN come after those not found *)
order_MissingLast(st) ==
    CASE st = "listed" -> 0 [] st = "catalog_match" -> 1
      [] st = "catalog_ambiguous" -> 2 [] st = "not_found" -> 3
      [] st = "missing_ean" -> 4 [] OTHER -> 9

order(st) ==
    CASE st = "listed" -> 0 [] st = "catalog_match" -> 1
      [] st = "catalog_ambiguous" -> 2 [] st = "missing_ean" -> 3
      [] st = "not_found" -> 4 [] OTHER -> 9

(* the sort key (__ord, brand, title) of a comes before that of b *)
key_less(a, b) ==
    \/ order(a.status) < order(b.status)
    \/ /\ order(a.status) = order(b.status)
       /\ \/ str_less(a.brand, b.brand)
          \/ a.brand = b.brand /\ str_less(a.title, b.title)

RECURSIVE insert_row(_, _)
insert_row(sorted, x) ==
    IF sorted = <<>> THEN <<x>>
    ELSE IF key_less(x, Head(sorted)) THEN <<x>> \o sorted
    ELSE <<Head(sorted)>> \o insert_row(Tail(sorted), x)

(* df.sort_values(["__ord", "brand", "title"]) *)
RECURSIVE sort_values(_)
sort_values(df) ==
    IF df = <<>> THEN <<>>
    ELSE insert_row(sort_values(SubSeq(df, 1, Len(df) - 1)), df[Len(df)])

(* f"{x:.2f}" of an amount in mills, as the cents it prints *)
fmt_mills(t) == {p.m : p \in RoundMills(t)}

(* f"{x:.2f}" of a rounded price, as the cents it prints *)
fmt_price(p) == p.m * 10^(p.x)

score_str(st) ==
    IF st \in {"listed", "catalog_match"} THEN 100
    ELSE IF st = "catalog_ambiguous" THEN 50
    ELSE 0

(* the record of the loop *)
base == normalize(sup[pos])

stock == _remap_stock_discrete(_parse_qty_to_int(base.qty_available))

blocked == _canon_brand(base.brand) \in _BRAND_BLOCK_KEYS

SupRow(a, st, sc, li, prov, cst, comp, fl, fi) ==
    [sku |-> base.sku, ean |-> base.ean, brand |-> base.brand,
     title |-> base.name, asin |-> a, status |-> st, score |-> sc,
     listed |-> li, provenance |-> prov, stock |-> stock, cost |-> cst,
     competitor_price |-> comp, floor_price |-> fl, selling_price |-> fi]

(* the loop goes on with the rows rs; after the last record the rows are   *)
(* sorted and written                                                      *)
Advance(rs, srcs) ==
    /\ rows' = rs
    /\ row_src' = srcs
    /\ IF pos < Len(sup)
       THEN /\ pos' = pos + 1
            /\ spc' = "record"
            /\ UNCHANGED written
       ELSE /\ pos' = pos
            /\ spc' = "done"
            /\ written' = Some(sort_values(rs))

Logged(fn, failed, answer) ==
    Append(log, [pos |-> pos, fn |-> fn, raised |-> failed, answer |-> answer])


\* records the supplier yields in one pass
MaxSup == 2

\* offers of one answer of the offers lookup
MaxOffers == 2

Sup(k, e, b, t, c, q) ==
    [sku |-> k, ean |-> e, brand |-> b, name |-> t, price_cost |-> c,
     qty_available |-> q]

SupRecords ==
    {Sup(<<"S", "1">>, <<>>, <<"A", "b">>, <<"t", "1">>, Some(10000), Qty(0)),
     Sup(<<"S", "2">>, <<"1">>, <<"A", "b">>, <<"t", "2">>, Some(36990),
         Qty(30)),
     Sup(<<"S", "3">>, <<"1">>, <<"h", "P">>, <<"t", "1">>, None, Qty(10)),
     Sup(<<"S", "4">>, <<"2">>, <<>>, <<"t", "0">>, None, Qty(120)),
     Sup(<<"S", "5">>, <<"2">>, <<"S", "e", "r", "v", "i", "c", "o", "s">>,
         <<"t", "1">>, None, Label("<2")),
     Sup(<<"S", "6">>, <<"2">>,
         <<"S", "e", "r", "v", "i", "c", "U+0327", "o", "s">>,
         <<"t", "1">>, None, Qty(10)),
     Sup(<<"S", "7">>, <<>>, <<"A", "b">>, <<"t", "3">>, None, Qty(5)),
     Sup(<<"S", "8">>, <<"-">>, <<"A", "b">>, <<"t", "3">>, None,
         Label("<10"))}

Item(a, summaries) == [asin |-> a, summaries |-> summaries]

Summary(m, b, t) == [marketplaceId |-> m, brand |-> b, itemName |-> t]

CatalogAnswers ==
    {<<>>,
     <<Item(<<"X", "1">>, <<Summary(MARKETPLACE_ID, <<"a", "b">>, <<"t">>)>>)>>,
     <<Item(<<"X", "1">>, <<Summary("ATVPDKIKX0DER", <<"a", "b">>, <<"t">>)>>)>>,
     <<Item(<<"X", "1">>, <<Summary(MARKETPLACE_ID, <<"z", "z">>, <<"t">>)>>),
       Item(<<"Y", "2">>,
            <<Summary(MARKETPLACE_ID, <<"A", "B", " ", "c">>, <<"t">>)>>)>>}

Offer(sid, lp, sh) == [SellerId |-> sid, ListingPrice |-> lp, Shipping |-> sh]

Offers ==
    {Offer(<<" ", "M", "E">>, Num(20000), Absent),
     Offer(<<"M", "E">>, Rejected, Absent),
     Offer(<<"S", "1">>, Num(25000), Num(2500)),
     Offer(<<"S", "2">>, Num(26000), Absent),
     Offer(<<"S", "3">>, Rejected, Num(100))}

OfferAnswers == SeqsUpTo(Offers, MaxOffers)

InitSuprides ==
    /\ NoPricing
    /\ NoClassification
    /\ NoResolve
    /\ SELLER_ID \in {<<>>, <<"M", "E">>}
    /\ sup \in SeqsUpTo(SupRecords, MaxSup)
    /\ spc = "idle"
    /\ pos = 0
    /\ sp_asin = <<>>
    /\ sp_status = ""
    /\ sp_listed = "no"
    /\ sp_competitor = None
    /\ rows = <<>>
    /\ written = None
    /\ row_src = <<>>
    /\ log = <<>>

(* classify_suprides_products is called; with no record to read the empty *)
(* table is written at once                                                *)
SupStart ==
    /\ spc = "idle"
    /\ IF sup = <<>>
       THEN /\ spc' = "done"
            /\ written' = Some(sort_values(<<>>))
            /\ UNCHANGED pos
       ELSE /\ spc' = "record"
            /\ pos' = 1
            /\ UNCHANGED written
    /\ UNCHANGED <<pvars, cvars, rvars, SELLER_ID, sup, sp_asin, sp_status,
                   sp_listed, sp_competitor, rows, row_src, log>>

(* the brand is in the blocklist: the record is ignored *)
SupBlocked ==
    /\ spc = "record"
    /\ blocked
    /\ Advance(rows, row_src)
    /\ UNCHANGED <<pvars, cvars, rvars, SELLER_ID, sup, sp_asin, sp_status,
                   sp_listed, sp_competitor, log>>

(* the record has no EAN *)
SupMissingEan ==
    /\ spc = "record"
    /\ ~blocked
    /\ base.ean = <<>>
    /\ \E cst \in (IF base.price_cost = None THEN {None}
                   ELSE {Some(c) : c \in fmt_mills(Val(base.price_cost))}) :
         Advance(Append(rows, SupRow(<<>>, "missing_ean", 0, "no", "supplier",
                                     cst, None, None, None)),
                 Append(row_src, pos))
    /\ UNCHANGED <<pvars, cvars, rvars, SELLER_ID, sup, sp_asin, sp_status,
                   sp_listed, sp_competitor, log>>

(* what follows the catalog search: the pick among the items *)
Picked(items) ==
    LET pick == _choose_best_catalog_item(items, base.brand)
    IN  /\ sp_asin' = pick.asin
        /\ sp_status' = pick.status
        /\ sp_listed' = "no"
        /\ sp_competitor' = None
        /\ spc' = IF pick.asin # <<>> THEN "offers" ELSE "price"

(* 2) the catalog search by EAN answers *)
SupCatalog ==
    /\ spc = "record"
    /\ ~blocked
    /\ base.ean # <<>>
    /\ \E items \in CatalogAnswers :
         /\ Picked(items)
         /\ log' = Logged("catalog_search_by_ean", FALSE, items)
    /\ UNCHANGED <<pvars, cvars, rvars, SELLER_ID, sup, pos, rows, written,
                   row_src>>

(* 2) the catalog search by EAN raises: `except Exception: items = []` *)
SupCatalogRaises ==
    /\ spc = "record"
    /\ ~blocked
    /\ base.ean # <<>>
    /\ Picked(<<>>)
    /\ log' = Logged("catalog_search_by_ean", TRUE, <<>>)
    /\ UNCHANGED <<pvars, cvars, rvars, SELLER_ID, sup, pos, rows, written,
                   row_src>>

(* 2b) the offers lookup answers *)
SupOffers ==
    /\ spc = "offers"
    /\ \E offers \in OfferAnswers :
         LET seen == scan_offers(offers, SELLER_ID, FALSE, None)
         IN  /\ sp_listed' = IF seen.my_seen THEN "yes" ELSE sp_listed
             /\ sp_status' = IF seen.my_seen THEN "listed" ELSE sp_status
             /\ sp_competitor' = seen.best_other
             /\ log' = Logged("pricing_get_item_offers", FALSE, offers)
    /\ spc' = "price"
    /\ UNCHANGED <<pvars, cvars, rvars, SELLER_ID, sup, pos, sp_asin, rows,
                   written, row_src>>

(* 2b) the offers lookup raises: `except Exception: pass` *)
SupOffersRaises ==
    /\ spc = "offers"
    /\ log' = Logged("pricing_get_item_offers", TRUE, <<>>)
    /\ spc' = "price"
    /\ UNCHANGED <<pvars, cvars, rvars, SELLER_ID, sup, pos, sp_asin,
                   sp_status, sp_listed, sp_competitor, rows, written,
                   row_src>>

(* 3) the floor and the final price, and the row of the record *)
SupPrice ==
    /\ spc = "price"
    /\ \E px \in calc_final_price(base.price_cost, sp_competitor) :
       \E cst \in (IF base.price_cost = None THEN {None}
                   ELSE {Some(c) : c \in fmt_mills(Val(base.price_cost))}) :
       \E comp \in (IF sp_competitor = None THEN {None}
                    ELSE {Some(c) : c \in fmt_mills(Val(sp_competitor))}) :
         LET floor_fmt == IF px.floor_price = None THEN None
                          ELSE Some(fmt_price(Val(px.floor_price)))
             final_fmt == IF px.final_price = None THEN None
                          ELSE Some(fmt_price(Val(px.final_price)))
         IN  Advance(Append(rows,
                        SupRow(sp_asin, sp_status, score_str(sp_status),
                               sp_listed,
                               IF sp_listed = "yes" THEN "inventory-asin"
                               ELSE "supplier",
                               cst, comp, floor_fmt, final_fmt)),
                     Append(row_src, pos))
    /\ UNCHANGED <<pvars, cvars, rvars, SELLER_ID, sup, sp_asin, sp_status,
                   sp_listed, sp_competitor, log>>

NextSuprides ==
    \/ SupStart
    \/ SupBlocked
    \/ SupMissingEan
    \/ SupCatalog
    \/ SupCatalogRaises
    \/ SupOffers
    \/ SupOffersRaises
    \/ SupPrice

SpecSuprides == InitSuprides /\ [][NextSuprides]_vars


(***************************************************************************)
(* Properties of the batch pass, checked under SpecSuprides.               *)
(***************************************************************************)
(* the collaborator calls made for the record row j comes from *)
CallsOf(j, fn) ==
    {k \in DOMAIN log : log[k].pos = row_src[j] /\ log[k].fn = fn}

(* C13: every record whose EAN is empty is classified catalog_ambiguous,   *)
(* with the candidates of the keyword search (an empty list when it finds  *)
(* nothing); it is never not_found and never ends as missing_ean.          *)
C13_NoEanIsAmbiguous ==
    \A j \in DOMAIN rows :
        rows[j].ean = <<>> => rows[j].status = "catalog_ambiguous"

(* C14: every record with a non-empty EAN whose EAN search returned zero   *)
(* candidates is classified catalog_ambiguous, not missing_ean, not        *)
(* catalog_match, and not anything else.                                   *)
C14_EanWithoutHitIsAmbiguous ==
    \A j \in DOMAIN rows :
        (/\ rows[j].ean # <<>>
         /\ \E k \in CallsOf(j, "catalog_search_by_ean") :
                ~log[k].raised /\ log[k].answer = <<>>)
            => rows[j].status = "catalog_ambiguous"

OrdinaryStatuses ==
    {"listed", "catalog_match", "catalog_ambiguous", "missing_ean",
     "not_found"}

(* C16: a record for which a collaborator call raised is reported with a   *)
(* failure marker of its own: its status is not not_found, not missing_ean *)
(* and none of the other ordinary classifications.                         *)
C16_FailureHasItsOwnMarker ==
    \A j \in DOMAIN rows :
        (\E k \in DOMAIN log : log[k].pos = row_src[j] /\ log[k].raised)
            => rows[j].status \notin OrdinaryStatuses


(***************************************************************************)
(* Properties of failures and of the EAN cache of classify_products,       *)
(* checked under SpecClassify.                                             *)
(***************************************************************************)
(* the dict cache_ean_to_asin.json holds *)
Stored == IF cache_file = None THEN <<>> ELSE Val(cache_file)

(* a run has loaded the cache: it is in its loop, or has left it *)
Loaded ==
    \/ pc \in {"step1", "step2", "step3", "done"}
    \/ pc = "raised" /\ raised # "RuntimeError"

(* C15: a catalog search that raises for one record does not end the pass: *)
(* every later record of the input still gets its output row.              *)
C15_FailureDoesNotAbort ==
    raised = "HTTPError" =>
        \A j \in DOMAIN processed : j > i => j \in DOMAIN rows_out

(* C17: the EAN search is made only for an EAN the cache has no entry for, *)
(* the cache has an entry for it once the search has returned, and over    *)
(* all records and runs no EAN is searched twice.                          *)
C17_ReadThroughAtMostOnce ==
    /\ [][searched' # searched =>
            (get(cache, ean) = None /\ get(cache', ean) # None)]_vars
    /\ [](\A a, b \in DOMAIN searched : a # b => searched[a] # searched[b])

(* C18: a run keeps every entry the cache file held when it started, with  *)
(* its value, in the dict it works on, and whatever it writes to the file  *)
(* keeps every entry of the file with its value.                           *)
C18_CacheOnlyGrows ==
    /\ [](Loaded =>
            \A e \in DOMAIN Stored : e \in DOMAIN cache /\ cache[e] = Stored[e])
    /\ [][\A e \in DOMAIN Stored :
            e \in DOMAIN Stored' /\ Stored'[e] = Stored[e]]_vars

(* a run has ended that found EAN 1 in the file, none of its records       *)
(* having that EAN, and has added EAN 2                                    *)
C18_Witness ==
    /\ pc = "done"
    /\ \A j \in DOMAIN processed : _digits(processed[j].ean) # <<"1">>
    /\ {<<"1">>, <<"2">>} \subseteq DOMAIN Stored


(***************************************************************************)
(* Properties of the offers of the batch pass, checked under SpecSuprides. *)
(***************************************************************************)
OffersCall == "pricing_get_item_offers"

(* the offer is the seller's own *)
Own(o) == strip(o.SellerId) = SELLER_ID

(* the offer has a landed price, listing price plus shipping, in mills *)
HasLanded(o) == o.ListingPrice.kind # "rejected" /\ o.Shipping.kind # "rejected"

Landed(o) == o.ListingPrice.v + o.Shipping.v

(* the landed prices of the offers of other sellers *)
OtherLanded(offers) ==
    {Landed(offers[k]) : k \in {l \in DOMAIN offers :
                                  ~Own(offers[l]) /\ HasLanded(offers[l])}}

Min(S) == CHOOSE x \in S : \A y \in S : x <= y

(* C19: for every row with an ASIN, the competitor price is the least      *)
(* landed price among the offers of other sellers the lookup returned, in  *)
(* cents; it is absent when there is no such offer or the lookup raised,   *)
(* and the row is written all the same.                                    *)
C19_CompetitorIsLowestOther ==
    \A j \in DOMAIN rows :
        rows[j].asin # <<>> =>
            /\ CallsOf(j, OffersCall) # {}
            /\ \A k \in CallsOf(j, OffersCall) :
                 LET others == OtherLanded(log[k].answer)
                 IN  rows[j].competitor_price =
                         IF log[k].raised \/ others = {}
                         THEN None
                         ELSE Some(Min(others) \div 10)

(* a row whose lookup returned an own offer at 20.00 and another seller's  *)
(* at 25.00 + 2.50, and whose competitor price is 27.50                    *)
C19_Witness ==
    \E j \in DOMAIN rows :
        /\ rows[j].competitor_price = Some(2750)
        /\ \E k \in CallsOf(j, OffersCall) :
             \E l \in DOMAIN log[k].answer :
                 /\ Own(log[k].answer[l])
                 /\ HasLanded(log[k].answer[l])
                 /\ Landed(log[k].answer[l]) = 20000

(* C20: every row whose offers lookup returned an offer of the seller's    *)
(* own id, whatever the price fields of that offer, is listed.             *)
C20_OwnOfferMeansListed ==
    \A j \in DOMAIN rows :
        \A k \in CallsOf(j, OffersCall) :
            (/\ ~log[k].raised
             /\ SELLER_ID # <<>>
             /\ \E l \in DOMAIN log[k].answer : Own(log[k].answer[l]))
                => rows[j].status = "listed"


(***************************************************************************)
(* Properties of the rows of the batch pass, checked under SpecSuprides.   *)
(***************************************************************************)
(* C21: every output row whose supplier cost is present carries a floor    *)
(* price and a final price, whatever its status, the rows of records       *)
(* without EAN included.                                                   *)
C21_CostMeansQuote ==
    \A j \in DOMAIN rows :
        sup[row_src[j]].price_cost # None =>
            /\ rows[j].floor_price # None
            /\ rows[j].selling_price # None


(***************************************************************************)
(* One row per record, for the pass of classify_products, checked under    *)
(* SpecClassify.                                                           *)
(***************************************************************************)
(* C22: when a pass has ended, every record of the input has exactly one   *)
(* output row, its own: none is dropped and none is emitted twice,         *)
(* whatever the inventory holds and whatever the catalog search does.      *)
C22_OneRowPerRecord ==
    PassEnded =>
        /\ DOMAIN rows_out = DOMAIN processed
        /\ \A j \in DOMAIN rows_out : rows_out[j].sku = SkuOf(j)


(***************************************************************************)
(* The blocklist of the batch pass, checked under SpecSuprides.            *)
(***************************************************************************)
(* the string without its diacritics: the precomposed character is its     *)
(* base letter and a combining mark is dropped                             *)
RECURSIVE unaccent(_)
unaccent(s) ==
    IF s = <<>> THEN <<>>
    ELSE IF Head(s) = "U+0327" THEN unaccent(Tail(s))
    ELSE IF Head(s) = "U+00E7" THEN <<"c">> \o unaccent(Tail(s))
    ELSE <<Head(s)>> \o unaccent(Tail(s))

(* the brand is an entry of the blocklist, case and diacritics apart *)
MatchesBlocklist(b) ==
    \E x \in _BRAND_BLOCKLIST :
        strip(lower(unaccent(b))) = strip(lower(unaccent(x)))

(* C23: a record whose brand is an entry of the blocklist, compared        *)
(* without regard to case and to diacritics, has no output row, and no     *)
(* catalog search and no offers lookup is made for it.                     *)
C23_BlocklistedIsSkipped ==
    \A p \in DOMAIN sup :
        MatchesBlocklist(sup[p].brand) =>
            /\ \A j \in DOMAIN rows : row_src[j] # p
            /\ \A k \in DOMAIN log : log[k].pos # p


(***************************************************************************)
(* The stock column of the batch pass, checked under SpecSuprides.         *)
(***************************************************************************)
(* the bucket of a quantity given in tenths *)
Bucket(t) ==
    IF t <= 0 THEN 0 ELSE IF t < 20 THEN 1 ELSE IF t < 100 THEN 5 ELSE 10

(* C24: the stock of every output row is one of 0, 1, 5, 10; when the      *)
(* supplier gave a number q it is the bucket of q (q <= 0: 0, 0 < q < 2:   *)
(* 1, 2 <= q < 10: 5, q >= 10: 10); the bucket of the stock is the stock.  *)
C24_StockIsBucket ==
    \A j \in DOMAIN rows :
        LET q == sup[row_src[j]].qty_available
        IN  /\ rows[j].stock \in {0, 1, 5, 10}
            /\ q.label = "" => rows[j].stock = Bucket(q.tenths)
            /\ _remap_stock_discrete(rows[j].stock) = rows[j].stock


(***************************************************************************)
(* The candidates of the keyword search, checked under SpecResolve.        *)
(***************************************************************************)
(* resolve_asin has returned the candidates of the keyword search *)
Suggested ==
    call = "resolve_asin" /\ ret # None /\ Val(ret).status = "catalog_ambiguous"

(* C25: the score of every candidate is within [0, 1], the two             *)
(* similarities being within [0, 1] and the brand bonus being added when   *)
(* both brands are non-empty and one contains the other.                   *)
C25_ScoreWithinUnit ==
    Suggested =>
        \A k \in DOMAIN Val(ret).candidates :
            /\ Val(ret).candidates[k].score >= 0
            /\ Val(ret).candidates[k].score <= 1000


(* the candidates resolve_asin returned, and the search result they are of *)
Out == Val(ret).candidates

Results == Val(kw_answer)

(* the first place of the search result that has the ASIN and the score of *)
(* the candidate                                                           *)
PlaceOf(c) ==
    LET at == {p \in DOMAIN Results :
                 /\ Results[p].asin = c.asin
                 /\ score_of(_norm(Val(arg).brand), Results[p]) = c.score}
    IN  IF at = {} THEN 0 ELSE CHOOSE p \in at : \A q \in at : p <= q

(* C26: the candidates of the keyword search are at most max_candidates,   *)
(* each is an entry of the search result, their scores never increase      *)
(* along the list, and two candidates of equal score are in the order they *)
(* had in the search result.                                               *)
C26_SortedByScoreStable ==
    Suggested =>
        /\ Len(Out) <= max_candidates
        /\ \A a \in DOMAIN Out : PlaceOf(Out[a]) > 0
        /\ \A a, b \in DOMAIN Out :
             a < b =>
                /\ Out[a].score >= Out[b].score
                /\ Out[a].score = Out[b].score
                      => PlaceOf(Out[a]) < PlaceOf(Out[b])

(* five candidates were returned out of seven results, two of them with    *)
(* the same score                                                          *)
C26_Witness ==
    /\ Suggested
    /\ Len(Results) = 7
    /\ Len(Out) = max_candidates
    /\ \E a \in DOMAIN Out :
         a + 1 \in DOMAIN Out /\ Out[a].score = Out[a + 1].score


(***************************************************************************)
(* The order of the table the batch pass writes, checked under             *)
(* SpecSuprides.                                                           *)
(***************************************************************************)
Priority ==
    <<"listed", "catalog_match", "catalog_ambiguous", "missing_ean",
      "not_found">>

Rank(st) == CHOOSE k \in DOMAIN Priority : Priority[k] = st

(* the key (rank of the status, brand, title) of a is not after that of b *)
KeyLE(a, b) ==
    \/ Rank(a.status) < Rank(b.status)
    \/ /\ Rank(a.status) = Rank(b.status)
       /\ \/ str_less(a.brand, b.brand)
          \/ a.brand = b.brand /\ ~str_less(b.title, a.title)

(* C27: the table written holds the rows of the pass, ordered by status in *)
(* the order listed, catalog_match, catalog_ambiguous, missing_ean,        *)
(* not_found, then by brand, then by title: the key of a row is never      *)
(* after the key of the row before it.                                     *)
C27_OutputOrdered ==
    written # None =>
        LET out == Val(written)
        IN  /\ Len(out) = Len(rows)
            /\ \A j \in DOMAIN rows : \E k \in DOMAIN out : out[k] = rows[j]
            /\ \A k \in DOMAIN out :
                 /\ out[k].status \in {Priority[l] : l \in DOMAIN Priority}
                 /\ k > 1 => KeyLE(out[k - 1], out[k])

(* a record not found was read before a record without EAN, and the table  *)
(* written has them the other way round                                    *)
C27_Witness ==
    /\ written # None
    /\ Len(rows) = 2
    /\ rows[1].status = "not_found"
    /\ rows[2].status = "missing_ean"
    /\ Val(written) = <<rows[2], rows[1]>>


(***************************************************************************)
(* An EAN without any digit, in the batch pass, checked under              *)
(* SpecSuprides.                                                           *)
(***************************************************************************)
(* C28: a record whose EAN has no digit in it is treated as a record       *)
(* without EAN: no catalog search by EAN is made for it, and its row is    *)
(* the row of a record without EAN.                                        *)
C28_DigitlessEanIsNoEan ==
    /\ \A k \in DOMAIN log :
         log[k].fn = "catalog_search_by_ean"
            => _digits(sup[log[k].pos].ean) # <<>>
    /\ \A j \in DOMAIN rows :
         _digits(sup[row_src[j]].ean) = <<>> => rows[j].status = "missing_ean"


(***************************************************************************)
(* The two branches of the floor solver, checked under Spec.               *)
(***************************************************************************)
(* _solve_pvp took the high branch: the low-branch value is above 100 *)
HighBranch ==
    /\ SolveDone
    /\ ~QuotLeStep(Val(cost) + SHIP_SURCHARGE, denom_under(Val(margin)))

(* C29: for every cost and every margin of the table, when the low-branch  *)
(* value exceeds 100 and the high branch is used, the floor price returned *)
(* is at least 100.00; the two branches agree at 100: the high-branch      *)
(* formula gives 100 where the low-branch formula does, which is           *)
(* 100 * (denom_over - denom_under) = 7.14.                                *)
C29_HighBranchAtLeastStep ==
    (SolveDone /\ Val(margin) \in TableMargins) =>
        /\ 100 * (raw_over(Val(margin)) - raw_under(Val(margin)))
              = (STEP_ADJUST_NUMERATOR \div 10) * (SCALE \div 100)
        /\ HighBranch =>
              /\ Returned(Val(result))
              /\ Val(result).x = 0
              /\ Val(result).m >= STEP_PRICE * 100

(* the first cost of the high branch for the margin 0.09, whose floor      *)
(* price is within two cents of 100.00                                     *)
C29_Witness ==
    /\ HighBranch
    /\ margin = Some(9)
    /\ QuotLeStep(Val(cost) - 10 + SHIP_SURCHARGE, denom_under(9))
    /\ Val(result).m <= STEP_PRICE * 100 + 2


(***************************************************************************)
(* The statuses the EAN cache holds, checked under SpecClassify.           *)
(***************************************************************************)
(* C30: neither the dict a run works on nor the cache file ever has an     *)
(* entry with status listed; a record whose SKU is in the inventory makes  *)
(* no EAN search and no entry; and a row is listed only by the inventory   *)
(* the run has read, by its SKU or by its ASIN.                            *)
C30_CacheNeverListed ==
    /\ [](\A e \in DOMAIN cache : cache[e].status # "listed")
    /\ [](\A e \in DOMAIN Stored : Stored[e].status # "listed")
    /\ [][(pc = "step1" /\ sku \in DOMAIN inv_by_sku)
             => (searched' = searched /\ cache' = cache)]_vars
    /\ [](\A j \in DOMAIN rows_out :
             rows_out[j].status = "listed"
                => \/ SkuOf(j) \in DOMAIN inv_by_sku
                   \/ rows_out[j].asin \in DOMAIN inv_by_asin)

(* a second run has ended with a listed row whose EAN the cache file holds *)
(* as catalog_match                                                        *)
C30_Witness ==
    /\ pc = "done"
    /\ runs = 2
    /\ \E j \in DOMAIN rows_out :
         LET e == _digits(processed[j].ean)
         IN  /\ rows_out[j].status = "listed"
             /\ e \in DOMAIN Stored
             /\ Stored[e].status = "catalog_match"

====
